---- MODULE Spec2Model ----
(***************************************************************************)
(* A model of the rufi launcher session: the result providers              *)
(* (app_search.rs, file_search.rs, system_commands.rs) as operators, and   *)
(* the event handlers of ui.rs as actions over the session state held in   *)
(* DelegateData.                                                           *)
(*                                                                         *)
(* Strings are sequences of one-character strings, so that prefixes,       *)
(* substrings and case folding are computed and not assumed.  Indices      *)
(* into Vec are 0-based as in the source; a Vec is a TLA+ sequence, so     *)
(* v.get(i) is v[i + 1].                                                   *)
(***************************************************************************)
EXTENDS Integers, Sequences, FiniteSets, TLC

\* ---------------------------------------------------------------- bounds

\* Longest search-field content that is typed.
MaxQueryLen == 2

\* ------------------------------------------------------ program constants

grid_columns == 5
EmptyQueryApps == 4
EmptyQueryFiles == 4
QueryApps == 8
InitialApps == 15
MaxRawMatches == 50
MaxDepth == 4
FileResults == 8
RandomCap == 20

\* ------------------------------------------------------------- characters

LowerOf ==
    ("A" :> "a") @@ ("B" :> "b") @@ ("C" :> "c") @@ ("D" :> "d") @@
    ("E" :> "e") @@ ("F" :> "f") @@ ("G" :> "g") @@ ("H" :> "h") @@
    ("I" :> "i") @@ ("J" :> "j") @@ ("K" :> "k") @@ ("L" :> "l") @@
    ("M" :> "m") @@ ("N" :> "n") @@ ("O" :> "o") @@ ("P" :> "p") @@
    ("Q" :> "q") @@ ("R" :> "r") @@ ("S" :> "s") @@ ("T" :> "t") @@
    ("U" :> "u") @@ ("V" :> "v") @@ ("W" :> "w") @@ ("X" :> "x") @@
    ("Y" :> "y") @@ ("Z" :> "z")

is_uppercase(c) == c \in DOMAIN LowerOf

to_lowercase_char(c) == IF is_uppercase(c) THEN LowerOf[c] ELSE c

to_lowercase(s) == [i \in 1..Len(s) |-> to_lowercase_char(s[i])]

is_empty(s) == Len(s) = 0

starts_with(s, c) == Len(s) > 0 /\ s[1] = c

contains(s, sub) ==
    \E i \in 1..(Len(s) + 1) :
        /\ i + Len(sub) - 1 <= Len(s)
        /\ SubSeq(s, i, i + Len(sub) - 1) = sub

take(s, n) == SubSeq(s, 1, IF Len(s) < n THEN Len(s) ELSE n)

Min(a, b) == IF a < b THEN a ELSE b

Range(s) == { s[i] : i \in 1..Len(s) }

\* ------------------------------------------------------------- data model

SearchModes == {"Apps", "Files", "Run"}

SearchResult_new(name, path, result_type) ==
    [name |-> name, path |-> path, result_type |-> result_type]

Application(name, path) ==
    [name |-> name, path |-> path, is_action |-> FALSE, command |-> "None"]

\* ------------------------------------------------- application directories
\* What fs::read_dir enumerates in each directory index_applications scans,
\* in enumeration order (which is not sorted).

app_dirs == << "/Applications", "~/Applications", "/System/Applications" >>

AppDirEntries ==
    ("/Applications" :>
      << [file_name |-> <<"S","a","f","a","r","i",".","a","p","p">>,
         path |-> "/Applications/Safari.app"],
         [file_name |-> <<"M","a","i","l",".","a","p","p">>,
         path |-> "/Applications/Mail.app"],
         [file_name |-> <<"r","e","a","d","m","e",".","t","x","t">>,
         path |-> "/Applications/readme.txt"],
         [file_name |-> <<"S","l","a","c","k",".","a","p","p">>,
         path |-> "/Applications/Slack.app"] >>) @@
    ("~/Applications" :>
      << [file_name |-> <<"i","T","e","r","m",".","a","p","p">>,
         path |-> "~/Applications/iTerm.app"] >>) @@
    ("/System/Applications" :>
      << [file_name |-> <<"T","e","r","m","i","n","a","l",".","a","p","p">>,
         path |-> "/System/Applications/Terminal.app"] >>)

\* u8 order of the characters that occur in names.
ascii ==
    << " ", ".", "/", "0", "1", "2", "3", "4", "5", "6", "7", "8", "9", ":",
       "A", "B", "C", "D", "E", "F", "G", "H", "I", "J", "K", "L", "M",
       "N", "O", "P", "Q", "R", "S", "T", "U", "V", "W", "X", "Y", "Z", "_",
       "a", "b", "c", "d", "e", "f", "g", "h", "i", "j", "k", "l", "m",
       "n", "o", "p", "q", "r", "s", "t", "u", "v", "w", "x", "y", "z" >>

byte(c) == CHOOSE i \in 1..Len(ascii) : ascii[i] = c

\* a.cmp(&b) # Greater for two strings: lexicographic over the bytes.
cmp_le(a, b) ==
    LET differ == { i \in 1..Min(Len(a), Len(b)) : a[i] # b[i] }
    IN  IF differ = {} THEN Len(a) <= Len(b)
        ELSE LET k == CHOOSE i \in differ : \A j \in differ : i <= j
             IN  byte(a[k]) < byte(b[k])

dot_app == <<".", "a", "p", "p">>

ends_with(s, suffix) ==
    Len(s) >= Len(suffix) /\ SubSeq(s, Len(s) - Len(suffix) + 1, Len(s)) = suffix

RECURSIVE trim_end_matches(_, _)
trim_end_matches(s, suffix) ==
    IF ends_with(s, suffix)
    THEN trim_end_matches(SubSeq(s, 1, Len(s) - Len(suffix)), suffix)
    ELSE s

RECURSIVE scan_entries(_, _, _)
\* The inner for loop of the scan from entry i on.
scan_entries(entries, i, scanned_apps) ==
    IF i > Len(entries) THEN scanned_apps
    ELSE LET name == entries[i].file_name
         IN  scan_entries(entries, i + 1,
                 IF ends_with(name, dot_app)
                 THEN Append(scanned_apps,
                             Application(trim_end_matches(name, dot_app), entries[i].path))
                 ELSE scanned_apps)

RECURSIVE scan_dirs(_, _, _)
\* The outer for loop of the scan from directory d on; readable holds the
\* directories read_dir succeeds on.
scan_dirs(d, readable, scanned_apps) ==
    IF d > Len(app_dirs) THEN scanned_apps
    ELSE scan_dirs(d + 1, readable,
             IF app_dirs[d] \in readable
             THEN scan_entries(AppDirEntries[app_dirs[d]], 1, scanned_apps)
             ELSE scanned_apps)

sort_unsorted(v) == v

RECURSIVE sort_by_name(_)
\* scanned_apps.sort_by(|a, b| a.name.cmp(&b.name)): a stable sort, ascending.
sort_by_name(v) ==
    IF Len(v) = 0 THEN <<>>
    ELSE LET n == Len(v)
             x == v[n]
             sorted == sort_by_name(SubSeq(v, 1, n - 1))
             \* x goes after every element whose name is <= its own
             k == Cardinality({ i \in 1..Len(sorted) : cmp_le(sorted[i].name, x.name) })
         IN  SubSeq(sorted, 1, k) \o <<x>> \o SubSeq(sorted, k + 1, Len(sorted))

\* The fresh scan of index_applications: the sorted applications of the
\* readable directories.
scan_applications(readable) == sort_by_name(scan_dirs(1, readable, <<>>))

\* The applications of the scanned directories, sorted by name as
\* index_applications leaves them.
AppCatalog == scan_applications(Range(app_dirs))

\* ------------------------------------------------------- application index
\* The cache file <cache_dir>/rofi-mac/apps.json: whether fs::metadata finds
\* it, the seconds modified.elapsed() gives (FutureMtime when elapsed() is an
\* Err, the modification time lying ahead of the clock), and its contents:
\* whether serde_json::from_str accepts them, and the list they hold.

CacheSeconds == 3600

FutureMtime == -1

CacheFile(exists, age, json_ok, list) ==
    [exists |-> exists, age |-> age, json_ok |-> json_ok, list |-> list]

NoCacheFile == CacheFile(FALSE, 0, FALSE, <<>>)

cache_fresh_inclusive(file) ==
    file.exists /\ file.age # FutureMtime /\ file.age <= CacheSeconds

cache_fresh_half_hour(file) ==
    file.exists /\ file.age # FutureMtime /\ file.age < 1800

\* "Check if cache exists and is recent (less than 1 hour old)".
cache_fresh(file) ==
    file.exists /\ file.age # FutureMtime /\ file.age < CacheSeconds

load_cache_unchecked(file, read_ok) ==
    IF read_ok THEN << file.list >> ELSE <<>>

\* load_cache: None when the file cannot be read or does not deserialize.
load_cache(file, read_ok) ==
    IF read_ok /\ file.json_ok THEN << file.list >> ELSE <<>>

\* save_cache: the file after the best-effort write of the list.
save_cache(file, scanned_apps, write_ok) ==
    IF write_ok THEN CacheFile(TRUE, 0, TRUE, scanned_apps) ELSE file

index_applications_cache_checked(dir_ok, file, read_ok, write_ok, readable) ==
    IF ~dir_ok
    THEN [outcome |-> "panic", returned |-> <<>>, file |-> file]
    ELSE LET cached == IF cache_fresh(file) THEN load_cache(file, read_ok) ELSE <<>>
             scanned_apps == scan_applications(readable)
         IN  IF cached # <<>> /\ cached[1] = scanned_apps
             THEN [outcome |-> "cache", returned |-> cached[1], file |-> file]
             ELSE [outcome |-> "scan", returned |-> scanned_apps,
                   file |-> save_cache(file, scanned_apps, write_ok)]

\* index_applications in an environment: dir_ok is whether dirs::cache_dir()
\* is Some, file the cache file, read_ok and write_ok whether reading and
\* writing it succeed, readable the application directories read_dir succeeds
\* on.  The outcome is how the call ended, returned the list it returned,
\* file the cache file it left.
index_applications(dir_ok, file, read_ok, write_ok, readable) ==
    IF ~dir_ok
    THEN \* cache_path(): dirs::cache_dir().unwrap() panics
         [outcome |-> "panic", returned |-> <<>>, file |-> file]
    ELSE LET cached == IF cache_fresh(file) THEN load_cache(file, read_ok) ELSE <<>>
         IN  IF cached # <<>>
             THEN [outcome |-> "cache", returned |-> cached[1], file |-> file]
             ELSE LET scanned_apps == scan_applications(readable)
                  IN  [outcome |-> "scan", returned |-> scanned_apps,
                       file |-> save_cache(file, scanned_apps, write_ok)]

\* The Vec<Application> main() passes to RofiUI::new: what index_applications
\* returned, one application more than the empty query displays.
apps == AppCatalog

SystemCommand_new(name, command) == [name |-> name, command |-> command]

get_system_commands ==
    << SystemCommand_new(<<"S","h","u","t","d","o","w","n">>, "osascript shut down"),
       SystemCommand_new(<<"R","e","b","o","o","t">>, "osascript restart"),
       SystemCommand_new(<<"S","l","e","e","p">>, "osascript sleep"),
       SystemCommand_new(<<"L","o","c","k"," ","S","c","r","e","e","n">>,
                         "pmset displaysleepnow") >>

\* ---------------------------------------------------------- fuzzy matcher
\* SkimMatcherV2::default().fuzzy_match(choice, pattern) of the fuzzy-matcher
\* crate: Some(score) exactly when pattern is a subsequence of choice, with
\* smart case (the match ignores case unless the pattern holds an upper-case
\* character); contiguous runs score higher than scattered matches.

None == [some |-> FALSE, score |-> 0]
Some(n) == [some |-> TRUE, score |-> n]

char_eq(a, b, case_sensitive) ==
    IF case_sensitive THEN a = b ELSE to_lowercase_char(a) = to_lowercase_char(b)

RECURSIVE Embeddings(_, _, _, _, _)
\* The ways to match pattern[k..] in choice[from..], as sequences of positions.
Embeddings(choice, pattern, k, from, case_sensitive) ==
    IF k > Len(pattern) THEN {<<>>}
    ELSE UNION { { <<i>> \o rest :
                     rest \in Embeddings(choice, pattern, k + 1, i + 1, case_sensitive) } :
                 i \in { j \in from..Len(choice) :
                           char_eq(choice[j], pattern[k], case_sensitive) } }

EmbeddingScore(p) ==
    LET runs == Cardinality({ i \in 1..(Len(p) - 1) : p[i + 1] = p[i] + 1 })
        gaps == p[Len(p)] - p[1] + 1 - Len(p)
    IN  16 * Len(p) + 8 * runs - 3 * gaps + (IF p[1] = 1 THEN 8 ELSE 0) - p[1]

SetMax(S) == CHOOSE x \in S : \A y \in S : y <= x

fuzzy_match(choice, pattern) ==
    IF is_empty(pattern) THEN Some(0)
    ELSE LET case_sensitive == \E i \in 1..Len(pattern) : is_uppercase(pattern[i])
             embs == Embeddings(choice, pattern, 1, 1, case_sensitive)
         IN  IF embs = {} THEN None
             ELSE Some(SetMax({ EmbeddingScore(p) : p \in embs }))

\* Vec::sort_by(|a, b| b.score.cmp(&a.score)): a stable sort, descending.
\* An element comes after the elements of a higher score and after the
\* earlier elements of its own score.
sort_by_score_desc(scored) ==
    LET n == Len(scored)
        before(i) == { j \in 1..n :
                         \/ scored[j].score > scored[i].score
                         \/ (scored[j].score = scored[i].score /\ j < i) }
    IN  SubSeq([k \in 1..n |->
                   scored[CHOOSE i \in 1..n : Cardinality(before(i)) = k - 1]], 1, n)

\* filter_map over a Vec keeping the matches with their scores, in order.
filter_map_score(items, pattern, lower) ==
    LET m(i) == IF lower
                THEN fuzzy_match(to_lowercase(items[i].name), to_lowercase(pattern))
                ELSE fuzzy_match(items[i].name, pattern)
        kept == { i \in 1..Len(items) : m(i).some }
        nth(k) == CHOOSE i \in kept : Cardinality({ j \in kept : j <= i }) = k
    IN  SubSeq([k \in 1..Cardinality(kept) |->
                   [score |-> m(nth(k)).score, item |-> items[nth(k)]]],
               1, Cardinality(kept))

Items(scored) == [i \in 1..Len(scored) |-> scored[i].item]

\* ------------------------------------------------------------ app_search

fuzzy_search_empty_query_sorted(candidates, query) ==
    Items(sort_by_score_desc(
        [i \in 1..Len(sort_by_name(candidates)) |->
            [score |-> 0, item |-> sort_by_name(candidates)[i]]]))

fuzzy_search(candidates, query) ==
    IF is_empty(query) THEN candidates
    ELSE Items(sort_by_score_desc(filter_map_score(candidates, query, TRUE)))

\* -------------------------------------------------------- system_commands

CommandResult(cmd) == SearchResult_new(cmd.name, cmd.command, "Run")

search_commands(query) ==
    LET commands == get_system_commands
    IN  IF is_empty(query)
        THEN [i \in 1..Len(commands) |-> CommandResult(commands[i])]
        ELSE LET scored == sort_by_score_desc(filter_map_score(commands, query, FALSE))
             IN  [i \in 1..Len(scored) |-> CommandResult(scored[i].item)]

\* ------------------------------------------------------------ file system
\* The home directory as fs::read_dir enumerates it: each readable directory
\* maps to its entries in enumeration order.  A directory that is no key
\* (here ~/sx) is one read_dir fails on.  An entry carries what
\* DirEntry::metadata says of it (is_dir; a symbolic link is not followed) and
\* what canonicalize gives for its path: Ok(path), or Err for a link whose
\* target is missing.

File(name, path) == [name |-> name, is_dir |-> FALSE, path |-> path, canonical |-> <<path>>]
Dir(name, path) == [name |-> name, is_dir |-> TRUE, path |-> path, canonical |-> <<path>>]
Symlink(name, path, target) ==
    [name |-> name, is_dir |-> FALSE, path |-> path, canonical |-> target]

Home == "~"

Digit == << "0", "1", "2", "3", "4", "5", "6", "7", "8", "9" >>

\* n files of dir named c01, c02, ...
Numbered(dir, c, n) ==
    [i \in 1..n |->
        File(<< c, Digit[(i \div 10) + 1], Digit[(i % 10) + 1] >>,
             dir \o "/" \o c \o Digit[(i \div 10) + 1] \o Digit[(i % 10) + 1])]

FS ==
    ("~" :> << Dir(<<"D","o","c","u","m","e","n","t","s">>, "~/Documents"),
               Dir(<<"D","o","w","n","l","o","a","d","s">>, "~/Downloads"),
               Dir(<<"D","e","s","k","t","o","p">>, "~/Desktop"),
               Dir(<<"L","i","b","r","a","r","y">>, "~/Library"),
               File(<<".","s">>, "~/.s"),
               Dir(<<"s","r","c">>, "~/src"),
               Dir(<<"s","x">>, "~/sx"),
               File(<<"a","s">>, "~/as"),
               Dir(<<"a","a">>, "~/aa"),
               File(<<"a","s","a">>, "~/asa") >>) @@
    ("~/Documents" :> << File(<<"s","a">>, "~/Documents/sa"),
                         File(<<".","a">>, "~/Documents/.a"),
                         Dir(<<"A","s">>, "~/Documents/As"),
                         Symlink(<<"s","l">>, "~/Documents/sl", << "~/Library/sa" >>),
                         Symlink(<<"s","b">>, "~/Documents/sb", << >>) >>) @@
    ("~/Documents/As" :> << File(<<"s","s","a">>, "~/Documents/As/ssa") >>) @@
    ("~/Downloads" :> << File(<<"S","a">>, "~/Downloads/Sa") >>
                      \o Numbered("~/Downloads", "f", 18)) @@
    ("~/Desktop" :> << File(<<"s","s">>, "~/Desktop/ss"),
                       Symlink(<<"s","u","p">>, "~/Desktop/sup", << "~" >>),
                       Symlink(<<"s","e","l","f">>, "~/Desktop/self", << >>) >>) @@
    ("~/Library" :> << File(<<"s","a">>, "~/Library/sa") >>) @@
    ("~/src" :> << Dir(<<"t","a","r","g","e","t">>, "~/src/target"),
                   Dir(<<"a">>, "~/src/a") >>) @@
    ("~/src/target" :> << File(<<"s","a">>, "~/src/target/sa") >>) @@
    ("~/src/a" :> << Dir(<<"b">>, "~/src/a/b") >>) @@
    ("~/src/a/b" :> << Dir(<<"c">>, "~/src/a/b/c") >>) @@
    ("~/src/a/b/c" :> << File(<<"s","a","s">>, "~/src/a/b/c/sas"),
                         Dir(<<"d">>, "~/src/a/b/c/d") >>) @@
    ("~/src/a/b/c/d" :> << File(<<"s","a","d">>, "~/src/a/b/c/d/sad") >>) @@
    ("~/aa" :> << Dir(<<"a","b">>, "~/aa/ab"),
                  File(<<"a","z">>, "~/aa/az"),
                  Dir(<<"a","c">>, "~/aa/ac") >>) @@
    ("~/aa/ab" :> << >> \o Numbered("~/aa/ab", "a", 45)) @@
    ("~/aa/ac" :> << File(<<"a","c","a">>, "~/aa/ac/aca") >>)

\* fs::read_dir(dir): the entries of the directory dir names, a symbolic link
\* in the place of a directory being followed to its target; <<>> when
\* read_dir fails.  ~/Desktop/sup points to the home directory, ~/Desktop/self
\* to itself.
read_dir(dir) ==
    IF dir \in DOMAIN FS THEN << FS[dir] >>
    ELSE LET targets == { e.canonical[1] :
                            e \in { l \in UNION { Range(FS[d]) : d \in DOMAIN FS } :
                                      /\ l.path = dir
                                      /\ l.canonical # <<>>
                                      /\ l.canonical # << l.path >> } }
         IN  IF targets # {} /\ targets \subseteq DOMAIN FS
             THEN << FS[CHOOSE t \in targets : TRUE] >>
             ELSE <<>>

is_dir_following_links(entry) ==
    entry.is_dir \/ read_dir(entry.path) # <<>>

\* entry.metadata() is Ok and metadata.is_dir(): DirEntry::metadata does not
\* follow a symbolic link.
is_dir(entry) == entry.is_dir

\* ------------------------------------------------------------ file_search
\* A walk carries the results vector and, beside it, the trace of what the
\* walk did: each read_dir call, each entry a loop body took up and each
\* push, with the depth of the directory concerned and the number of results
\* held at that moment.

Walk(results, trace) == [results |-> results, trace |-> trace]

NoWalk == Walk(<<>>, <<>>)

traced(w, op, path, depth) ==
    Walk(w.results,
         Append(w.trace, [op |-> op, path |-> path, depth |-> depth,
                          held |-> Len(w.results)]))

\* results.push(SearchResult::new(file_name, canonical path, Files)).
push(w, entry, depth) ==
    traced(Walk(Append(w.results,
                       SearchResult_new(entry.name, entry.canonical[1], "Files")),
                w.trace),
           "push", entry.path, depth)

skipped_hidden_only(file_name) == starts_with(file_name, ".")

skipped(file_name) ==
    \/ starts_with(file_name, ".")
    \/ file_name = <<"L","i","b","r","a","r","y">>
    \/ file_name = <<"n","o","d","e","_","m","o","d","u","l","e","s">>
    \/ file_name = <<"t","a","r","g","e","t">>

\* The element of a set of one element.
TheOne(S) == CHOOSE x \in S : TRUE

RECURSIVE search_recursive(_, _, _, _, _, _)
RECURSIVE search_entries(_, _, _, _, _, _, _, _)

loop_breaks_late(w, max_results) == Len(w.results) > max_results

\* "if results.len() >= max_results { break; }" at the head of the loop body.
loop_breaks(w, max_results) == Len(w.results) >= max_results

\* One iteration of the for loop of search_recursive.  Once the break
\* condition holds it holds for good, so the iterations the break cuts off
\* are iterations that do nothing.
search_entry(entry, query, w, max_results, max_depth, current_depth) ==
    IF loop_breaks(w, max_results) THEN w
    ELSE LET taken == traced(w, "entry", entry.path, current_depth)
         IN  IF skipped(entry.name) THEN taken
             ELSE LET matched ==
                          IF /\ contains(to_lowercase(entry.name), to_lowercase(query))
                             /\ entry.canonical # <<>>
                          THEN push(taken, entry, current_depth)
                          ELSE taken
                  IN  IF is_dir(entry)
                      THEN search_recursive(entry.path, query, matched,
                                            max_results, max_depth, current_depth + 1)
                      ELSE matched

\* The for loop of search_recursive over entries lo..hi, in order: the
\* iterations over the first half, then those over the second half on what
\* the first half left.
search_entries(entries, lo, hi, query, w, max_results, max_depth, current_depth) ==
    IF lo > hi THEN w
    ELSE IF lo = hi
    THEN search_entry(entries[lo], query, w, max_results, max_depth, current_depth)
    ELSE LET mid == (lo + hi) \div 2
         IN  TheOne({ search_entries(entries, mid + 1, hi, query, first,
                                     max_results, max_depth, current_depth) :
                      first \in { search_entries(entries, lo, mid, query, w,
                                                 max_results, max_depth, current_depth) } })

search_recursive_any_depth(dir, query, w, max_results, max_depth, current_depth) ==
    IF Len(w.results) >= max_results THEN w
    ELSE LET opened == traced(w, "read_dir", dir, current_depth)
         IN  IF read_dir(dir) = <<>> THEN opened
             ELSE search_entries(read_dir(dir)[1], 1, Len(read_dir(dir)[1]), query,
                                 opened, max_results, max_depth, current_depth)

search_recursive(dir, query, w, max_results, max_depth, current_depth) ==
    IF Len(w.results) >= max_results \/ current_depth > max_depth THEN w
    ELSE LET opened == traced(w, "read_dir", dir, current_depth)
         IN  IF read_dir(dir) = <<>> THEN opened
             ELSE search_entries(read_dir(dir)[1], 1, Len(read_dir(dir)[1]), query,
                                 opened, max_results, max_depth, current_depth)

\* What a call hands back beside its trace: the raw results and the returned
\* list.
Searched(raw, trace, returned) == [raw |-> raw, trace |-> trace, returned |-> returned]

search_files_untruncated(query) ==
    IF is_empty(query) THEN Searched(<<>>, <<>>, <<>>)
    ELSE LET w == search_recursive(Home, query, NoWalk, MaxRawMatches, MaxDepth, 0)
             scored == sort_by_score_desc(filter_map_score(w.results, query, FALSE))
         IN  Searched(w.results, w.trace, Items(scored))

\* search_files with the trace of its walk.
search_files_walk(query) ==
    IF is_empty(query) THEN Searched(<<>>, <<>>, <<>>)
    ELSE LET w == search_recursive(Home, query, NoWalk, MaxRawMatches, MaxDepth, 0)
             scored == sort_by_score_desc(filter_map_score(w.results, query, FALSE))
         IN  Searched(w.results, w.trace, take(Items(scored), FileResults))

search_files_all_matches(query) == search_files_untruncated(query).returned

search_files(query) == search_files_walk(query).returned

search_dirs == << "~/Documents", "~/Downloads", "~/Desktop" >>

capped_late(w) == Len(w.results) > RandomCap

\* "if results.len() >= 20 { break; }" in the inner and in the outer loop.
capped(w) == Len(w.results) >= RandomCap

\* One iteration of the inner for loop of search_files_random up to its
\* break test.
random_entry(entry, w) ==
    LET taken == traced(w, "entry", entry.path, 0)
    IN  IF starts_with(entry.name, ".") THEN taken
        ELSE IF entry.canonical # <<>> THEN push(taken, entry, 0)
        ELSE taken

RECURSIVE random_entries(_, _, _, _)
\* The inner for loop of search_files_random over entries lo..hi, in order:
\* the later entries are not reached once the break test holds.
random_entries(entries, lo, hi, w) ==
    IF lo > hi THEN w
    ELSE IF lo = hi THEN random_entry(entries[lo], w)
    ELSE LET mid == (lo + hi) \div 2
         IN  TheOne({ IF capped(first) THEN first
                      ELSE random_entries(entries, mid + 1, hi, first) :
                      first \in { random_entries(entries, lo, mid, w) } })

RECURSIVE random_dirs(_, _)
\* The outer for loop of search_files_random from directory d on.
random_dirs(d, w) ==
    IF d > Len(search_dirs) THEN w
    ELSE LET dir == search_dirs[d]
             opened == traced(w, "read_dir", dir, 0)
             scanned == IF dir \in DOMAIN FS
                        THEN random_entries(FS[dir], 1, Len(FS[dir]), opened)
                        ELSE opened
         IN  IF capped(scanned) THEN scanned
             ELSE random_dirs(d + 1, scanned)

\* search_files_random with the trace of its scan.
search_files_random_walk(count) ==
    LET w == random_dirs(1, NoWalk)
    IN  Searched(w.results, w.trace, take(w.results, count))

search_files_random(count) == search_files_random_walk(count).returned

\* ------------------------------------------------------------ the session

Alphabet == {"s", "a", "/", ":"}

\* Every content of the search field.
Queries == UNION { [1..n -> Alphabet] : n \in 0..MaxQueryLen }

AppResult(app) == SearchResult_new(app.name, app.path, "Apps")

RECURSIVE Arrangements(_, _)
\* Every sequence of k distinct elements of S.
Arrangements(S, k) ==
    IF k = 0 THEN {<<>>}
    ELSE UNION { { <<x>> \o rest : rest \in Arrangements(S \ {x}, k - 1) } : x \in S }

\* app_vec.shuffle(&mut rng) followed by take(n) and the map to SearchResult:
\* the first n of any order of the applications.
shuffle_take(v, n) ==
    { [i \in 1..Len(a) |-> AppResult(a[i])] :
        a \in Arrangements(Range(v), Min(n, Len(v))) }

\* The empty-query branch of the Apps arm: 4 applications of a shuffled order.
empty_query_apps == shuffle_take(apps, EmptyQueryApps)

query_results_shuffled_files(mode, query) ==
    CASE mode = "Apps" ->
            IF is_empty(query) THEN empty_query_apps
            ELSE LET found == take(fuzzy_search(apps, query), QueryApps)
                 IN  { [i \in 1..Len(found) |-> AppResult(found[i])] }
      [] mode = "Files" ->
            IF is_empty(query)
            THEN LET first == search_files_random(EmptyQueryFiles)
                 IN  Arrangements(Range(first), Len(first))
            ELSE { search_files(query) }
      [] mode = "Run" -> { search_commands(query) }

\* The match on the mode in control_text_did_change and button_clicked: the
\* result lists the provider of the mode can return for the query.
query_results(mode, query) ==
    CASE mode = "Apps" ->
            IF is_empty(query) THEN empty_query_apps
            ELSE LET found == take(fuzzy_search(apps, query), QueryApps)
                 IN  { [i \in 1..Len(found) |-> AppResult(found[i])] }
      [] mode = "Files" ->
            IF is_empty(query) THEN { search_files_random(EmptyQueryFiles) }
            ELSE { search_files(query) }
      [] mode = "Run" -> { search_commands(query) }

ModesEntry(query) ==
    (<<"Apps", query>> :> query_results("Apps", query)) @@
    (<<"Files", query>> :> query_results("Files", query)) @@
    (<<"Run", query>> :> query_results("Run", query))

RECURSIVE TableFrom(_)
RECURSIVE TableOver(_, _)
TableOver(query, chars) ==
    IF chars = {} THEN <<>>
    ELSE LET c == CHOOSE x \in chars : TRUE
         IN  TableFrom(Append(query, c)) @@ TableOver(query, chars \ {c})

TableFrom(query) ==
    ModesEntry(query) @@
        (IF Len(query) < MaxQueryLen THEN TableOver(query, Alphabet) ELSE <<>>)

\* query_results over every mode and query, evaluated once.
ResultsTable == TableFrom(<<>>)

VARIABLES
    text,            \* stringValue of the search field
    search_mode,     \* DelegateData.search_mode
    filtered,        \* DelegateData.filtered
    selected_index,  \* DelegateData.selected_index (0-based)
    row_views,       \* number of ClickableRowView cells in results_view;
                     \* the cell built for position i carries rowIndex = i
    text_field_found,\* whether the walk button_clicked, mouse_entered and
                     \* mouse_down make over the subviews of the window's
                     \* content view meets a view of class NSTextField
    launches,        \* the launch attempts made: entry, opener, outcome
    terminated,      \* NSApp terminate: has been sent
    last_event,      \* the event handled last: its selector, the value of
                     \* selected_index when it arrived, and whether the
                     \* handler reached the session data
    cache_dir,       \* dirs::cache_dir() is Some
    cache_file,      \* the cache file apps.json
    cache_io,        \* whether reading and writing the cache file succeed
    readable_dirs,   \* the application directories read_dir succeeds on
    file_call,       \* the call of search_files or search_files_random under
                     \* way: its argument, what it does (its trace), how many
                     \* of those steps it has done, and whether it returned
    index_call,      \* the last call of index_applications: how it ended,
                     \* the cache file it met, the list it returned, the
                     \* cache file it left and the application directories
                     \* it found readable
    rank_call,       \* the last call of a provider on its own: the function,
                     \* its arguments, what it returned, and the call before
                     \* it when that one had the same arguments but for the
                     \* case of the query's letters
    handling         \* per thread, the handler it runs: its steps on the
                     \* locks and the session data, how many it has done,
                     \* and the locks it holds in the order it took them

session_vars == << text, search_mode, filtered, selected_index, row_views,
                   text_field_found, launches, terminated, last_event >>

index_vars == << cache_dir, cache_file, cache_io, readable_dirs, index_call >>

file_vars == << file_call >>

rank_vars == << rank_call >>

lock_vars == << handling >>

vars == << session_vars, index_vars, file_vars, rank_vars, lock_vars >>

\* What the handlers of the session do not touch.
outside_session == << index_vars, file_vars, rank_vars, lock_vars >>

Event(name, reached) == [name |-> name, from |-> selected_index, reached |-> reached]

\* No call of the file search under way.
NoFileCall ==
    [fn |-> "idle", query |-> <<>>, count |-> 0,
     call |-> Searched(<<>>, <<>>, <<>>), at |-> 0, done |-> FALSE]

\* Number of threads that deliver events to the handlers.
NThreads == 2

Threads == 1..NThreads

\* A thread that runs no handler.
NotHandling == [handler |-> "none", steps |-> <<>>, pc |-> 0, held |-> <<>>]

NoHandling == [t \in Threads |-> NotHandling]

\* No provider called on its own.
NoRankCall ==
    [fn |-> "none", candidates |-> <<>>, query |-> <<>>, returned |-> <<>>,
     before |-> <<>>]

\* main() has called index_applications and holds apps.
IndexReturned ==
    /\ cache_dir = TRUE
    /\ cache_file = CacheFile(TRUE, 0, TRUE, apps)
    /\ cache_io = [read_ok |-> TRUE, write_ok |-> TRUE]
    /\ readable_dirs = Range(app_dirs)
    /\ index_call = [outcome |-> "scan", seen |-> NoCacheFile, returned |-> apps,
                     left |-> CacheFile(TRUE, 0, TRUE, apps),
                     dirs |-> Range(app_dirs)]

\* RofiUI::new: up to 15 applications in a shuffled order are displayed and
\* stored, the first one selected, the mode Apps, the search field empty.
\* RofiUI::new adds the search field to search_container, so the handlers'
\* walk over the content view's direct subviews meets no NSTextField
\* (text_field_found = FALSE) and they return without touching the session;
\* the handlers' bodies are written for a window whose content view holds the
\* field itself (TRUE).  A session is one or the other throughout.
Init ==
    /\ text_field_found \in BOOLEAN
    /\ text = <<>>
    /\ search_mode = "Apps"
    /\ filtered \in shuffle_take(apps, InitialApps)
    /\ selected_index = 0
    /\ row_views = Len(filtered)
    /\ launches = <<>>
    /\ terminated = FALSE
    /\ last_event = [name |-> "new", from |-> 0, reached |-> TRUE]
    /\ IndexReturned
    /\ file_call = NoFileCall
    /\ rank_call = NoRankCall
    /\ handling = NoHandling

store_results_keep_index(new_filtered, old_index) ==
    [filtered |-> new_filtered, selected_index |-> old_index]

\* "Store filtered results and reset selection to first item": the two
\* assignments that follow the provider call in control_text_did_change and in
\* button_clicked.
store_results(new_filtered, old_index) ==
    [filtered |-> new_filtered, selected_index |-> 0]

\* The loop that removes every subview of results_view and the loop that adds
\* one cell per result: the number of cells afterwards.
rebuild_rows(results) == Len(results)

query_text_without_sigil(string_value) ==
    IF starts_with(string_value, "/") \/ starts_with(string_value, ":")
    THEN Tail(string_value)
    ELSE string_value

\* The query the handlers take from the search field: its stringValue, whole.
query_text(string_value) == string_value

current_mode_from_prefix(mode, string_value) ==
    IF starts_with(string_value, "/") THEN "Files"
    ELSE IF starts_with(string_value, ":") THEN "Run"
    ELSE "Apps"

\* "Get current search mode": the mode control_text_did_change filters by is
\* the stored one, whatever the text.
current_mode(mode, string_value) == mode

\* controlTextDidChange: the user edited the search field to new_text.
control_text_did_change(new_text) ==
    /\ ~terminated
    /\ new_text # text
    /\ text' = new_text
    /\ LET query == query_text(new_text)
           mode == current_mode(search_mode, new_text)
       IN  /\ search_mode' = mode
           /\ \E new_filtered \in ResultsTable[<<mode, query>>] :
                  LET stored == store_results(new_filtered, selected_index)
                  IN  /\ filtered' = stored.filtered
                      /\ selected_index' = stored.selected_index
                      /\ row_views' = rebuild_rows(stored.filtered)
    /\ last_event' = Event("controlTextDidChange:", TRUE)
    /\ UNCHANGED << text_field_found, launches, terminated >>
    /\ UNCHANGED outside_session

\* The match on the button's tag.
new_mode_of(tag) ==
    CASE tag = 0 -> "Apps"
      [] tag = 1 -> "Files"
      [] tag = 2 -> "Run"
      [] OTHER -> "Apps"

Tags == 0..2

button_clicked_mode_only(tag) ==
    /\ ~terminated
    /\ IF text_field_found
       THEN /\ search_mode' = new_mode_of(tag)
            /\ UNCHANGED << filtered, selected_index, row_views >>
       ELSE UNCHANGED << search_mode, filtered, selected_index, row_views >>
    /\ last_event' = Event("buttonClicked:", text_field_found)
    /\ UNCHANGED << text, text_field_found, launches, terminated >>
    /\ UNCHANGED outside_session

\* buttonClicked: of a pill button with the given tag.
button_clicked(tag) ==
    /\ ~terminated
    /\ IF text_field_found
       THEN LET new_mode == new_mode_of(tag)
            IN  /\ search_mode' = new_mode
                /\ \E new_filtered \in ResultsTable[<<new_mode, query_text(text)>>] :
                       LET stored == store_results(new_filtered, selected_index)
                       IN  /\ filtered' = stored.filtered
                           /\ selected_index' = stored.selected_index
                           /\ row_views' = rebuild_rows(stored.filtered)
       ELSE UNCHANGED << search_mode, filtered, selected_index, row_views >>
    /\ last_event' = Event("buttonClicked:", text_field_found)
    /\ UNCHANGED << text, text_field_found, launches, terminated >>
    /\ UNCHANGED outside_session

\* cancelOperation: (Escape).
cancel_operation ==
    /\ ~terminated
    /\ terminated' = TRUE
    /\ last_event' = Event("cancelOperation:", TRUE)
    /\ UNCHANGED << text, search_mode, filtered, selected_index, row_views,
                    text_field_found, launches >>
    /\ UNCHANGED outside_session

\* Vec::get.
get(v, i) == IF 0 <= i /\ i < Len(v) THEN << v[i + 1] >> ELSE <<>>

\* The match on result_type: which opener the entry is handed to.
opener(result) ==
    IF result.result_type = "Run" THEN "sh -c" ELSE "NSWorkspace openFile:"

terminate_without_launch(result, ok) ==
    /\ launches' = launches
    /\ terminated' = TRUE

\* The launch of result followed by NSApp terminate:; ok is whether openFile:
\* or spawn succeeded, which the handlers do not read.
launch_and_terminate(result, ok) ==
    /\ launches' = Append(launches, [entry |-> result, via |-> opener(result), ok |-> ok])
    /\ terminated' = TRUE

insert_newline_closing(ok) ==
    /\ ~terminated
    /\ LET result == get(filtered, selected_index)
       IN  IF result # <<>>
           THEN launch_and_terminate(result[1], ok)
           ELSE launches' = launches /\ terminated' = TRUE
    /\ last_event' = Event("insertNewline:", TRUE)
    /\ UNCHANGED << text, search_mode, filtered, selected_index, row_views,
                    text_field_found >>
    /\ UNCHANGED outside_session

\* insertNewline: (Enter).
insert_newline(ok) ==
    /\ ~terminated
    /\ LET result == get(filtered, selected_index)
       IN  IF result # <<>>
           THEN launch_and_terminate(result[1], ok)
           ELSE UNCHANGED << launches, terminated >>
    /\ last_event' = Event("insertNewline:", TRUE)
    /\ UNCHANGED << text, search_mode, filtered, selected_index, row_views,
                    text_field_found >>
    /\ UNCHANGED outside_session

saturating_sub(a, b) == IF a < b THEN 0 ELSE a - b

move_down_unclamped(index, filtered_count) == index + 1

\* The index after moveDown: with filtered_count results.
move_down_index(index, filtered_count) ==
    IF index < saturating_sub(filtered_count, 1) THEN index + 1 ELSE index

move_up_by_row(index) == saturating_sub(index, grid_columns)

\* The index after moveUp:.
move_up_index(index) ==
    IF index > 0 THEN index - 1 ELSE index

\* moveDown: (Arrow Down).
move_down ==
    /\ ~terminated
    /\ selected_index' = move_down_index(selected_index, Len(filtered))
    /\ row_views' = rebuild_rows(filtered)
    /\ last_event' = Event("moveDown:", TRUE)
    /\ UNCHANGED << text, search_mode, filtered, text_field_found, launches, terminated >>
    /\ UNCHANGED outside_session

\* moveUp: (Arrow Up).
move_up ==
    /\ ~terminated
    /\ selected_index' = move_up_index(selected_index)
    /\ row_views' = rebuild_rows(filtered)
    /\ last_event' = Event("moveUp:", TRUE)
    /\ UNCHANGED << text, search_mode, filtered, text_field_found, launches, terminated >>
    /\ UNCHANGED outside_session

\* The selectors the text field also sends and the handler has no branch for.
OtherSelectors == {"moveLeft:", "moveRight:"}

\* Any other selector: the handler answers NO and changes nothing.
other_selector(sel) ==
    /\ ~terminated
    /\ last_event' = Event(sel, TRUE)
    /\ UNCHANGED << text, search_mode, filtered, selected_index, row_views,
                    text_field_found, launches, terminated >>
    /\ UNCHANGED outside_session

\* The rowIndex values of the cells on screen.
Rows == 0..(row_views - 1)

\* mouseEntered: of the cell with rowIndex row_index.
mouse_entered(row_index) ==
    /\ ~terminated
    /\ row_index \in Rows
    /\ selected_index' = IF text_field_found THEN row_index ELSE selected_index
    /\ last_event' = Event("mouseEntered:", text_field_found)
    /\ UNCHANGED << text, search_mode, filtered, row_views, text_field_found,
                    launches, terminated >>
    /\ UNCHANGED outside_session

\* mouseDown: on the cell with rowIndex row_index.
mouse_down(row_index, ok) ==
    /\ ~terminated
    /\ row_index \in Rows
    /\ LET result == get(filtered, row_index)
       IN  IF text_field_found /\ result # <<>>
           THEN launch_and_terminate(result[1], ok)
           ELSE UNCHANGED << launches, terminated >>
    /\ last_event' = Event("mouseDown:", text_field_found)
    /\ UNCHANGED << text, search_mode, filtered, selected_index, row_views,
                    text_field_found >>
    /\ UNCHANGED outside_session

Next ==
    \/ \E new_text \in Queries : control_text_did_change(new_text)
    \/ \E tag \in Tags : button_clicked(tag)
    \/ cancel_operation
    \/ \E ok \in BOOLEAN : insert_newline(ok)
    \/ move_down
    \/ move_up
    \/ \E sel \in OtherSelectors : other_selector(sel)
    \/ \E row_index \in Rows : mouse_entered(row_index)
    \/ \E row_index \in Rows, ok \in BOOLEAN : mouse_down(row_index, ok)

Spec == Init /\ [][Next]_vars

\* ------------------------------------------------ runs of the index
\* The launcher is started again and again over a cache file that persists
\* between the runs; each start calls index_applications once.

\* Age past which the clock is not advanced further.
MaxAge == 3602

\* The seconds that pass between two events.
Elapses == {1799, 1800, 1801}

\* main() before it calls index_applications: no session yet.
NoSession ==
    /\ text = <<>>
    /\ search_mode = "Apps"
    /\ filtered = <<>>
    /\ selected_index = 0
    /\ row_views = 0
    /\ text_field_found = FALSE
    /\ launches = <<>>
    /\ terminated = FALSE
    /\ last_event = [name |-> "main", from |-> 0, reached |-> FALSE]

IndexInit ==
    /\ NoSession
    /\ cache_dir \in BOOLEAN
    /\ cache_io \in [read_ok : BOOLEAN, write_ok : BOOLEAN]
    /\ readable_dirs \in SUBSET Range(app_dirs)
    /\ cache_file \in
           IF cache_dir
           THEN {NoCacheFile} \cup
                { CacheFile(TRUE, age, TRUE, AppCatalog) : age \in {0, FutureMtime} }
           ELSE {NoCacheFile}
    /\ index_call = [outcome |-> "none", seen |-> NoCacheFile, returned |-> <<>>,
                     left |-> NoCacheFile, dirs |-> {}]
    /\ file_call = NoFileCall
    /\ rank_call = NoRankCall
    /\ handling = NoHandling

\* main() calls index_applications.
main_index_applications ==
    LET r == index_applications(cache_dir, cache_file, cache_io.read_ok,
                                cache_io.write_ok, readable_dirs)
    IN  /\ cache_file' = r.file
        /\ index_call' = [outcome |-> r.outcome, seen |-> cache_file,
                          returned |-> r.returned, left |-> r.file,
                          dirs |-> readable_dirs]
        /\ UNCHANGED << cache_dir, cache_io, readable_dirs, session_vars, file_vars, rank_vars, lock_vars >>

\* d seconds pass.
elapse(d) ==
    /\ cache_file.exists
    /\ cache_file.age # FutureMtime
    /\ cache_file.age + d <= MaxAge
    /\ cache_file' = [cache_file EXCEPT !.age = @ + d]
    /\ UNCHANGED << cache_dir, cache_io, readable_dirs, index_call, session_vars, file_vars, rank_vars, lock_vars >>

\* The cache file is left with contents that do not deserialize (a write cut
\* short, another writer).
corrupt_cache ==
    /\ cache_dir
    /\ cache_file.exists
    /\ cache_file.json_ok
    /\ cache_file' = CacheFile(TRUE, 0, FALSE, <<>>)
    /\ UNCHANGED << cache_dir, cache_io, readable_dirs, index_call, session_vars, file_vars, rank_vars, lock_vars >>

\* The cache file is deleted.
remove_cache ==
    /\ cache_file.exists
    /\ cache_file' = NoCacheFile
    /\ UNCHANGED << cache_dir, cache_io, readable_dirs, index_call, session_vars, file_vars, rank_vars, lock_vars >>

\* The application directories change between two runs: the user's own
\* ~/Applications is created with its applications, or removed with them.
change_app_dirs ==
    /\ readable_dirs' = IF "~/Applications" \in readable_dirs
                        THEN readable_dirs \ {"~/Applications"}
                        ELSE readable_dirs \cup {"~/Applications"}
    /\ UNCHANGED << cache_dir, cache_file, cache_io, index_call, session_vars, file_vars, rank_vars, lock_vars >>

IndexNext ==
    \/ main_index_applications
    \/ change_app_dirs
    \/ \E d \in Elapses : elapse(d)
    \/ corrupt_cache
    \/ remove_cache

IndexSpec == IndexInit /\ [][IndexNext]_vars

\* ------------------------------------------------- calls of the file search
\* search_files and search_files_random called with every argument and
\* followed step by step: one step per read_dir call, entry taken up and push.

\* Largest count search_files_random is called with.
MaxCount == 21

RECURSIVE FileCallsFrom(_)
RECURSIVE FileCallsOver(_, _)
FileCallsOver(query, chars) ==
    IF chars = {} THEN <<>>
    ELSE LET c == CHOOSE x \in chars : TRUE
         IN  FileCallsFrom(Append(query, c)) @@ FileCallsOver(query, chars \ {c})

FileCallsFrom(query) ==
    (query :> search_files_walk(query)) @@
        (IF Len(query) < MaxQueryLen THEN FileCallsOver(query, Alphabet) ELSE <<>>)

\* search_files_walk over every query, evaluated once.
FileCalls == FileCallsFrom(<<>>)

FileInit ==
    /\ NoSession
    /\ IndexReturned
    /\ file_call = NoFileCall
    /\ rank_call = NoRankCall
    /\ handling = NoHandling

\* search_files(query) is called.
call_search_files(query) ==
    /\ file_call.fn = "idle"
    /\ file_call' = [fn |-> "search_files", query |-> query, count |-> 0,
                     call |-> FileCalls[query], at |-> 0, done |-> FALSE]
    /\ UNCHANGED << session_vars, index_vars, rank_vars, lock_vars >>

\* search_files_random(count) is called.
call_search_files_random(count) ==
    /\ file_call.fn = "idle"
    /\ file_call' = [fn |-> "search_files_random", query |-> <<>>, count |-> count,
                     call |-> search_files_random_walk(count), at |-> 0, done |-> FALSE]
    /\ UNCHANGED << session_vars, index_vars, rank_vars, lock_vars >>

\* The call does its next read_dir, entry or push.
walk_step ==
    /\ file_call.fn # "idle"
    /\ ~file_call.done
    /\ file_call.at < Len(file_call.call.trace)
    /\ file_call' = [file_call EXCEPT !.at = @ + 1]
    /\ UNCHANGED << session_vars, index_vars, rank_vars, lock_vars >>

\* The call returns.
return_results ==
    /\ file_call.fn # "idle"
    /\ ~file_call.done
    /\ file_call.at = Len(file_call.call.trace)
    /\ file_call' = [file_call EXCEPT !.done = TRUE]
    /\ UNCHANGED << session_vars, index_vars, rank_vars, lock_vars >>

\* The caller is ready for another call.
next_call ==
    /\ file_call.done
    /\ file_call' = NoFileCall
    /\ UNCHANGED << session_vars, index_vars, rank_vars, lock_vars >>

FileNext ==
    \/ \E query \in Queries : call_search_files(query)
    \/ \E count \in 0..MaxCount : call_search_files_random(count)
    \/ walk_step
    \/ return_results
    \/ next_call

FileSpec == FileInit /\ [][FileNext]_vars

\* A call that has begun runs on: the thread that called search_files does
\* nothing else until it returns.
FileFairSpec ==
    FileSpec /\ WF_vars(walk_step) /\ WF_vars(return_results)

\* ------------------------------------------------ calls of the providers
\* fuzzy_search, search_files and search_commands called on their own, with
\* candidate lists and with queries of upper- and lower-case letters, and
\* called again with the same query in another case.

\* Longest candidate list fuzzy_search is called with.
MaxCandidates == 2

CaseAlphabet == {"s", "S", "a", "l", "L"}

CaseQueries == UNION { [1..n -> CaseAlphabet] : n \in 0..MaxQueryLen }

\* The applications candidate lists are made of: Safari, Slack, Terminal.
CandidatePool == { a \in Range(AppCatalog) : a.name[1] \in {"S", "T"} }

\* Every candidate list: applications of the pool in any order, repeated or
\* not.
CandidateLists == UNION { [1..n -> CandidatePool] : n \in 0..MaxCandidates }

\* Two queries that differ at most in the case of their letters.
same_but_case(q, v) == to_lowercase(q) = to_lowercase(v)

RECURSIVE CaseFilesFrom(_)
RECURSIVE CaseFilesOver(_, _)
CaseFilesOver(query, chars) ==
    IF chars = {} THEN <<>>
    ELSE LET c == CHOOSE x \in chars : TRUE
         IN  CaseFilesFrom(Append(query, c)) @@ CaseFilesOver(query, chars \ {c})

CaseFilesFrom(query) ==
    (query :> search_files(query)) @@
        (IF Len(query) < MaxQueryLen THEN CaseFilesOver(query, CaseAlphabet) ELSE <<>>)

\* search_files over every query of CaseQueries, evaluated once.
CaseFiles == CaseFilesFrom(<<>>)

\* What the provider fn returns for the arguments.
provider_returns(fn, candidates, query) ==
    CASE fn = "fuzzy_search" -> fuzzy_search(candidates, query)
      [] fn = "search_files" -> CaseFiles[query]
      [] fn = "search_commands" -> search_commands(query)

RankInit ==
    /\ NoSession
    /\ IndexReturned
    /\ file_call = NoFileCall
    /\ rank_call = NoRankCall
    /\ handling = NoHandling

\* fuzzy_search(candidates, query) is called.
call_fuzzy_search ==
    /\ rank_call.fn = "none"
    /\ \E candidates \in CandidateLists, query \in CaseQueries :
           rank_call' = [fn |-> "fuzzy_search", candidates |-> candidates,
                         query |-> query,
                         returned |-> provider_returns("fuzzy_search", candidates, query),
                         before |-> <<>>]
    /\ UNCHANGED << session_vars, index_vars, file_vars, lock_vars >>

\* search_files(query) or search_commands(query) is called.
call_provider ==
    /\ rank_call.fn = "none"
    /\ \E fn \in {"search_files", "search_commands"}, query \in CaseQueries :
           rank_call' = [fn |-> fn, candidates |-> <<>>, query |-> query,
                         returned |-> provider_returns(fn, <<>>, query),
                         before |-> <<>>]
    /\ UNCHANGED << session_vars, index_vars, file_vars, lock_vars >>

\* The function called last is called again, the query in another case.
call_in_other_case(query) ==
    /\ rank_call.fn # "none"
    /\ rank_call.before = <<>>
    /\ query # rank_call.query
    /\ same_but_case(query, rank_call.query)
    /\ rank_call' = [rank_call EXCEPT
                        !.query = query,
                        !.returned = provider_returns(rank_call.fn,
                                                      rank_call.candidates, query),
                        !.before = << [query |-> rank_call.query,
                                       returned |-> rank_call.returned] >>]
    /\ UNCHANGED << session_vars, index_vars, file_vars, lock_vars >>

\* The caller is ready for other arguments.
other_arguments ==
    /\ rank_call.fn # "none"
    /\ rank_call' = NoRankCall
    /\ UNCHANGED << session_vars, index_vars, file_vars, lock_vars >>

RankNext ==
    \/ call_fuzzy_search
    \/ call_provider
    \/ \E query \in CaseQueries : call_in_other_case(query)
    \/ other_arguments

RankSpec == RankInit /\ [][RankNext]_vars

\* ------------------------------------------------- the handlers' locks
\* Each handler as the sequence of its steps on the mutexes and on the data
\* they guard: DELEGATE_DATA.lock(), the lock() of a field of DelegateData,
\* the end of a guard's life (the end of its statement or scope, or drop), a
\* read or write through a guard, and a message sent to the toolkit.  Events
\* reach the handlers on any of the threads.

DELEGATE_DATA == "DELEGATE_DATA"

lock(m) == [op |-> "lock", on |-> m]
unlock(m) == [op |-> "unlock", on |-> m]
read(field) == [op |-> "read", on |-> field]
write(field) == [op |-> "write", on |-> field]
send(message) == [op |-> "send", on |-> message]

\* A statement that locks a field, uses it and lets the guard go.
locked(step) == << lock(step.on), step, unlock(step.on) >>

\* The provider call of the match on the mode: the Apps arm locks apps.
provider_steps(mode) ==
    IF mode = "Apps" THEN locked(read("apps")) ELSE <<>>

control_text_did_change_steps(mode) ==
    << lock(DELEGATE_DATA) >> \o locked(read("search_mode"))
        \o provider_steps(mode)
        \o locked(write("filtered")) \o locked(write("selected_index"))
        \o locked(read("selected_index"))
        \o << unlock(DELEGATE_DATA) >>

cancel_operation_steps == << send("terminate:") >>

\* has_entry: filtered.get(selected_idx) is Some.
insert_newline_steps(has_entry) ==
    << lock(DELEGATE_DATA), lock("filtered") >> \o locked(read("selected_index"))
        \o << read("filtered") >>
        \o (IF has_entry THEN << send("terminate:") >> ELSE <<>>)
        \o << unlock("filtered"), unlock(DELEGATE_DATA) >>

move_down_steps_guard_kept ==
    << lock(DELEGATE_DATA) >> \o locked(read("filtered"))
        \o << lock("selected_index"), read("selected_index"), write("selected_index") >>
        \o locked(read("filtered")) \o locked(read("selected_index"))
        \o << unlock("selected_index"), unlock(DELEGATE_DATA) >>

move_down_steps ==
    << lock(DELEGATE_DATA) >> \o locked(read("filtered"))
        \o << lock("selected_index"), read("selected_index"), write("selected_index"),
              unlock("selected_index") >>
        \o locked(read("filtered")) \o locked(read("selected_index"))
        \o << unlock(DELEGATE_DATA) >>

move_up_steps ==
    << lock(DELEGATE_DATA) >>
        \o << lock("selected_index"), read("selected_index"), write("selected_index"),
              unlock("selected_index") >>
        \o locked(read("filtered")) \o locked(read("selected_index"))
        \o << unlock(DELEGATE_DATA) >>

\* found: the walk over the content view's subviews met the text field.
button_clicked_steps(found, new_mode) ==
    IF ~found THEN <<>>
    ELSE << lock(DELEGATE_DATA) >> \o locked(write("search_mode"))
             \o << send("setStringValue:") >>
             \o provider_steps(new_mode)
             \o locked(write("filtered")) \o locked(write("selected_index"))
             \o << unlock(DELEGATE_DATA) >>

mouse_entered_steps(found) ==
    IF ~found THEN <<>>
    ELSE << lock(DELEGATE_DATA) >> \o locked(write("selected_index"))
             \o << send("setStringValue:"), unlock(DELEGATE_DATA) >>

mouse_down_steps(found, has_entry) ==
    IF ~found THEN <<>>
    ELSE << lock(DELEGATE_DATA), lock("filtered"), read("filtered") >>
             \o (IF has_entry THEN << send("terminate:") >> ELSE <<>>)
             \o << unlock("filtered"), unlock(DELEGATE_DATA) >>

Handler(name, steps) == [handler |-> name, steps |-> steps, pc |-> 0, held |-> <<>>]

\* The handlers an event can start, in each of their branches.
Handlers ==
    { Handler("controlTextDidChange:", control_text_did_change_steps(mode)) :
        mode \in SearchModes }
    \cup { Handler("cancelOperation:", cancel_operation_steps) }
    \cup { Handler("insertNewline:", insert_newline_steps(has_entry)) :
             has_entry \in BOOLEAN }
    \cup { Handler("moveDown:", move_down_steps), Handler("moveUp:", move_up_steps) }
    \cup { Handler("buttonClicked:", button_clicked_steps(found, new_mode)) :
             found \in BOOLEAN, new_mode \in SearchModes }
    \cup { Handler("mouseEntered:", mouse_entered_steps(found)) : found \in BOOLEAN }
    \cup { Handler("mouseDown:", mouse_down_steps(found, has_entry)) :
             found \in BOOLEAN, has_entry \in BOOLEAN }

\* What a message sent to the toolkit makes the toolkit call before the
\* message returns: setStringValue: sets the value and posts no
\* controlTextDidChange:, and terminate: calls no handler of the session.
sent(message) == <<>>

\* The thread has a step left, and the step itself.
Running(t) == handling[t].pc < Len(handling[t].steps)
NextStep(t) == handling[t].steps[handling[t].pc + 1]

\* The threads that hold the mutex.
Holders(m) == { t \in Threads : m \in Range(handling[t].held) }

\* Mutex::lock blocks while the mutex is held, by whichever thread.
Blocked(t) == Running(t) /\ NextStep(t).op = "lock" /\ Holders(NextStep(t).on) # {}

LockInit ==
    /\ NoSession
    /\ IndexReturned
    /\ file_call = NoFileCall
    /\ rank_call = NoRankCall
    /\ handling = NoHandling

\* An event reaches its handler on thread t.
deliver_event(t, h) ==
    /\ ~Running(t)
    /\ handling' = [handling EXCEPT ![t] = h]
    /\ UNCHANGED << session_vars, index_vars, file_vars, rank_vars >>

\* The handler on thread t does its next step; after its last step it
\* returns.
handler_step(t) ==
    /\ Running(t)
    /\ ~Blocked(t)
    /\ LET step == NextStep(t)
           run == handling[t]
           steps == IF step.op = "send"
                    THEN SubSeq(run.steps, 1, run.pc + 1) \o sent(step.on)
                             \o SubSeq(run.steps, run.pc + 2, Len(run.steps))
                    ELSE run.steps
       IN  handling' = [handling EXCEPT ![t] =
               IF run.pc + 1 = Len(steps) THEN NotHandling
               ELSE [handler |-> run.handler,
                     steps |-> steps,
                     pc |-> run.pc + 1,
                     held |-> CASE step.op = "lock" -> Append(run.held, step.on)
                                [] step.op = "unlock" ->
                                     SelectSeq(run.held, LAMBDA m : m # step.on)
                                [] OTHER -> run.held]]
    /\ UNCHANGED << session_vars, index_vars, file_vars, rank_vars >>

LockNext ==
    \/ \E t \in Threads, h \in Handlers : deliver_event(t, h)
    \/ \E t \in Threads : handler_step(t)

LockSpec == LockInit /\ [][LockNext]_vars

\* ------------------------------------------------------------------ claims

QueryEvent(e) ==
    e.name \in {"controlTextDidChange:", "buttonClicked:"} /\ e.reached

\* C1: in every reachable state selected_index is a valid index of filtered
\* when filtered is non-empty, and is 0 when filtered is empty.
C1_SelectedIndexInRange ==
    IF Len(filtered) = 0
    THEN selected_index = 0
    ELSE 0 <= selected_index /\ selected_index < Len(filtered)

\* moveDown: arrived with the last entry selected and left it selected.
C1_Witness ==
    /\ last_event.name = "moveDown:"
    /\ Len(filtered) > 1
    /\ last_event.from = Len(filtered) - 1
    /\ selected_index = Len(filtered) - 1

\* C2: right after an event that replaced the result set (a text change or a
\* mode-button click that reached the session), selected_index is 0.
C2_ResetOnReplace ==
    QueryEvent(last_event) => selected_index = 0

\* A text change arrived with a later entry selected and reset the selection.
C2_Witness ==
    /\ last_event.name = "controlTextDidChange:"
    /\ last_event.from > 0
    /\ Len(filtered) > 1
    /\ selected_index = 0

\* C3 (as claimed): Enter, and a click on a row, launch the entry that
\* selected_index designates.
C3_CommitLaunchesSelected ==
    (last_event.name \in {"insertNewline:", "mouseDown:"}
         /\ selected_index < Len(filtered)) =>
        /\ Len(launches) = 1
        /\ launches[1].entry = filtered[selected_index + 1]

\* C4 (as claimed): moveDown: adds grid_columns to selected_index and wraps to
\* the same column of the top row past the end.
C4_MoveDownByColumns ==
    (last_event.name = "moveDown:" /\ Len(filtered) > 0) =>
        selected_index =
            IF last_event.from + grid_columns >= Len(filtered)
            THEN last_event.from % grid_columns
            ELSE last_event.from + grid_columns

\* C5 (as claimed): moveUp: subtracts grid_columns from selected_index and
\* wraps to the same column of the last row, clamped to the last entry.
C5_MoveUpByColumns ==
    (last_event.name = "moveUp:" /\ Len(filtered) > 0) =>
        selected_index =
            IF last_event.from - grid_columns < 0
            THEN Min(((Len(filtered) - 1) \div grid_columns) * grid_columns
                         + (last_event.from % grid_columns),
                     Len(filtered) - 1)
            ELSE last_event.from - grid_columns

\* C6 (as claimed): moveRight: steps to the next index and wraps to 0,
\* moveLeft: steps to the previous index and wraps to the last one.
C6_HorizontalWrap ==
    /\ (last_event.name = "moveRight:" /\ Len(filtered) > 0) =>
           selected_index = (last_event.from + 1) % Len(filtered)
    /\ (last_event.name = "moveLeft:" /\ Len(filtered) > 0) =>
           selected_index = (last_event.from + Len(filtered) - 1) % Len(filtered)

\* route of the specification: the mode and stripped query of a raw input.
C7_route(raw_input) ==
    IF starts_with(raw_input, "/") THEN [mode |-> "Files", query |-> Tail(raw_input)]
    ELSE IF starts_with(raw_input, ":") THEN [mode |-> "Run", query |-> Tail(raw_input)]
    ELSE [mode |-> "Apps", query |-> raw_input]

\* C7 (as claimed): after a text change the mode is the one the input's prefix
\* selects and the results are those of that mode for the stripped query.
C7_RouteByPrefix ==
    last_event.name = "controlTextDidChange:" =>
        /\ search_mode = C7_route(text).mode
        /\ filtered \in query_results(C7_route(text).mode, C7_route(text).query)

\* C7 (amended): after a text change the results are those of the stored
\* search_mode for the whole raw input, sigil included.
C7_QueryIsRawInput ==
    last_event.name = "controlTextDidChange:" =>
        filtered \in query_results(search_mode, text)

\* "/s" was typed in Apps mode and handled as an application query.
C7_Witness ==
    /\ last_event.name = "controlTextDidChange:"
    /\ text = <<"/", "s">>
    /\ search_mode = "Apps"
    /\ filtered = <<>>

\* C8 (as claimed): after a text change the mode is the one the current
\* input's prefix implies.
C8_ModeFollowsPrefix ==
    last_event.name = "controlTextDidChange:" => search_mode = C7_route(text).mode

\* C8 (amended): the mode is sticky: only a mode-button click that reached the
\* session changes search_mode, and a text change leaves it as it was.
C8_ModeSticky ==
    [][ /\ (search_mode' # search_mode =>
               last_event'.name = "buttonClicked:" /\ last_event'.reached)
        /\ (last_event'.name = "controlTextDidChange:" => search_mode' = search_mode)
      ]_vars

\* A text change left the session in Files mode with an input without sigil.
C8_Witness ==
    /\ last_event.name = "controlTextDidChange:"
    /\ search_mode = "Files"
    /\ text = <<"s">>
    /\ Len(filtered) > 0

\* A step that handles again the query the step before it handled: a click on
\* the button of the current mode, the text unchanged.
C9_SameQueryAgain ==
    /\ QueryEvent(last_event)
    /\ QueryEvent(last_event')
    /\ search_mode' = search_mode
    /\ text' = text

C10_TerminatesOnlyOnSuccess ==
    terminated =>
        \/ last_event.name = "cancelOperation:"
        \/ (Len(launches) > 0 /\ launches[Len(launches)].ok)

\* C10 (amended): the session terminates only after Escape or after Enter or
\* a click launched an existing entry, whether or not the launch succeeded;
\* nothing is launched without terminating.
C10_TerminatesOnlyOnCancelOrActivation ==
    /\ terminated =>
           \/ (last_event.name = "cancelOperation:" /\ launches = <<>>)
           \/ (last_event.name \in {"insertNewline:", "mouseDown:"} /\ Len(launches) = 1)
    /\ ~terminated => launches = <<>>

\* Enter launched an entry, the launch failed and the session terminated.
C10_Witness ==
    /\ terminated
    /\ last_event.name = "insertNewline:"
    /\ Len(launches) = 1
    /\ ~launches[1].ok

\* index_applications was called and returned.
IndexReturnedList == index_call.outcome \in {"cache", "scan"}

\* The cache file the last call met could be read and deserialized.
SeenLoads == cache_io.read_ok /\ index_call.seen.json_ok

\* The cache file the last call met had the given age in seconds.
SeenAge(age) == index_call.seen.exists /\ index_call.seen.age = age

\* C11: index_applications returns the cached list exactly when the cache
\* file is less than 3600 seconds old and deserializes: at 3599 s the cache is
\* returned, at 3600 s and at 3601 s the fresh scan is.
C11_CacheUsedIffFresh ==
    IndexReturnedList =>
        /\ index_call.outcome = "cache" <=>
               /\ index_call.seen.exists
               /\ index_call.seen.age \in 0..3599
               /\ SeenLoads
        /\ index_call.outcome = "cache" => index_call.returned = index_call.seen.list
        /\ index_call.outcome = "scan" =>
               index_call.returned = scan_applications(index_call.dirs)
        /\ (SeenAge(3599) /\ SeenLoads) => index_call.outcome = "cache"
        /\ (SeenAge(3600) \/ SeenAge(3601)) => index_call.outcome = "scan"

\* A loadable cache of exactly 3600 s was met and superseded by a scan that
\* found other applications.
C11_Witness ==
    /\ index_call.outcome = "scan"
    /\ SeenAge(3600)
    /\ SeenLoads
    /\ index_call.returned # index_call.seen.list

\* C12 (as claimed): with a cache file modified 1801 seconds ago,
\* index_applications scans afresh and does not return the cached list.
C12_RescanAfterHalfHour ==
    (IndexReturnedList /\ SeenAge(1801)) =>
        /\ index_call.outcome = "scan"
        /\ index_call.returned = scan_applications(index_call.dirs)

\* C12 (amended): with a cache file modified 1801 seconds ago,
\* index_applications returns the cached list without scanning when the file
\* deserializes, and scans only when it does not.
C12_CacheUsedAfterHalfHour ==
    (IndexReturnedList /\ SeenAge(1801)) =>
        IF SeenLoads
        THEN /\ index_call.outcome = "cache"
             /\ index_call.returned = index_call.seen.list
             /\ index_call.left = index_call.seen
        ELSE index_call.outcome = "scan"

\* A cache of 1801 s was returned although a scan would have given another list.
C12_Witness ==
    /\ index_call.outcome = "cache"
    /\ SeenAge(1801)
    /\ index_call.returned # scan_applications(index_call.dirs)

\* The last call met a fresh cache file that could not be read or deserialized.
SeenFreshButBroken ==
    /\ index_call.seen.exists
    /\ index_call.seen.age \in 0..3599
    /\ ~SeenLoads

C15_NoFatalError ==
    index_call.outcome # "panic"

\* The entries of every directory of the file system.
AllEntries == UNION { Range(FS[d]) : d \in DOMAIN FS }

\* The directory an entry lies in, and the entry a path names.
parent_of(path) == CHOOSE d \in DOMAIN FS : \E e \in Range(FS[d]) : e.path = path
entry_at(path) == CHOOSE e \in AllEntries : e.path = path

RECURSIVE TreeDepth(_)
\* The depth of a directory or entry: the home directory at 0, every entry
\* one deeper than the directory it lies in.
TreeDepth(path) == IF path = Home THEN 0 ELSE 1 + TreeDepth(parent_of(path))

\* The names the traversal is to leave out: those starting with '.', and
\* Library, node_modules and target.
left_out(name) ==
    \/ (Len(name) > 0 /\ name[1] = ".")
    \/ name \in { <<"L","i","b","r","a","r","y">>,
                  <<"n","o","d","e","_","m","o","d","u","l","e","s">>,
                  <<"t","a","r","g","e","t">> }

RECURSIVE beneath_left_out(_)
\* The entry lies, at any depth, beneath a directory of such a name.
beneath_left_out(path) ==
    /\ path # Home
    /\ parent_of(path) # Home
    /\ \/ left_out(entry_at(parent_of(path)).name)
       \/ beneath_left_out(parent_of(path))

\* The steps a call has done so far, and the last of them.
Done == SubSeq(file_call.call.trace, 1, file_call.at)
Stepped == file_call.at > 0
Step == file_call.call.trace[file_call.at]

InSearchFiles == file_call.fn = "search_files"
InSearchFilesRandom == file_call.fn = "search_files_random"
Returned == file_call.call.returned

\* The entries whose push is among the steps of the call.
PushedEntries ==
    { entry_at(file_call.call.trace[k].path) :
        k \in { j \in 1..Len(file_call.call.trace) :
                  file_call.call.trace[j].op = "push" } }

\* Every returned result is the result of a pushed entry satisfying P.
ReturnedAre(P(_)) ==
    \A i \in 1..Len(Returned) :
        \E e \in PushedEntries :
            /\ Returned[i] = SearchResult_new(e.name, e.canonical[1], "Files")
            /\ P(e)

\* C16: search_files returns at most 8 results, and for the empty query it
\* returns the empty sequence without a single read_dir.
C16_AtMostEightAndEmpty ==
    InSearchFiles =>
        /\ Len(Returned) <= 8
        /\ is_empty(file_call.query) =>
               Returned = <<>> /\ file_call.call.trace = <<>>

\* search_files returned 8 of the 50 raw matches it had collected.
C16_Witness ==
    /\ InSearchFiles
    /\ file_call.done
    /\ Len(Returned) = 8
    /\ Len(file_call.call.raw) = 50

\* C17: at every step of the walk of search_files the raw-match list holds at
\* most 50 entries, and a directory is read or an entry taken up only while
\* it holds fewer than 50.
C17_RawCap ==
    (InSearchFiles /\ Stepped) =>
        /\ Step.held <= 50
        /\ Step.op \in {"read_dir", "entry"} => Step.held < 50
        /\ Len(file_call.call.raw) <= 50

\* The walk ended on the 50th match inside ~/aa/ab and left alone the rest of
\* that directory, of its parent and of the home directory.
C17_Witness ==
    /\ InSearchFiles
    /\ file_call.done
    /\ Stepped
    /\ Step.held = 50
    /\ Step.op = "push"
    /\ parent_of(Step.path) = "~/aa/ab"
    /\ \A k \in 1..Len(file_call.call.trace) :
           file_call.call.trace[k].path \notin {"~/aa/ab/a45", "~/aa/az", "~/aa/ac", "~/asa"}

\* C18: search_recursive reads a directory only at depth <= 4, the home
\* directory being at depth 0, so every entry it takes up or returns lies in
\* a directory of depth <= 4.
C18_DepthBound ==
    InSearchFiles =>
        /\ Stepped =>
               IF Step.op = "read_dir"
               THEN TreeDepth(Step.path) <= 4 /\ Step.depth = TreeDepth(Step.path)
               ELSE TreeDepth(parent_of(Step.path)) <= 4
        /\ file_call.done =>
               ReturnedAre(LAMBDA e : TreeDepth(parent_of(e.path)) <= 4)

\* The walk read the directory of depth 4, took up and returned its entries,
\* and never read its subdirectory of depth 5.
C18_Witness ==
    /\ InSearchFiles
    /\ file_call.done
    /\ \E k \in 1..Len(file_call.call.trace) :
           /\ file_call.call.trace[k].op = "read_dir"
           /\ file_call.call.trace[k].path = "~/src/a/b/c"
           /\ file_call.call.trace[k].depth = 4
    /\ \E k \in 1..Len(file_call.call.trace) :
           /\ file_call.call.trace[k].op = "entry"
           /\ file_call.call.trace[k].path = "~/src/a/b/c/d"
    /\ \E i \in 1..Len(Returned) : Returned[i].path = "~/src/a/b/c/sas"
    /\ \A k \in 1..Len(file_call.call.trace) :
           file_call.call.trace[k].path # "~/src/a/b/c/d/sad"

\* C19: search_files returns no entry whose name starts with '.' or is
\* Library, node_modules or target, never reads such a directory, and takes
\* up and returns no entry beneath one.
C19_SkippedPruned ==
    InSearchFiles =>
        /\ Stepped =>
               /\ ~beneath_left_out(Step.path)
               /\ (Step.op = "read_dir" /\ Step.path # Home) =>
                      ~left_out(entry_at(Step.path).name)
               /\ Step.op = "push" => ~left_out(entry_at(Step.path).name)
        /\ file_call.done =>
               /\ \A i \in 1..Len(Returned) : ~left_out(Returned[i].name)
               /\ ReturnedAre(LAMBDA e : ~left_out(e.name) /\ ~beneath_left_out(e.path))

\* The walk for "sa" met Library, target and a dot file, whose subtrees hold
\* matches, and returned only matches from elsewhere.
C19_Witness ==
    /\ InSearchFiles
    /\ file_call.done
    /\ file_call.query = <<"s", "a">>
    /\ \A p \in {"~/Library", "~/src/target", "~/.s"} :
           \E k \in 1..Len(file_call.call.trace) :
               file_call.call.trace[k].op = "entry" /\ file_call.call.trace[k].path = p
    /\ Len(Returned) > 0

\* The position of a directory in search_dirs.
DirOrder(dir) == CHOOSE d \in 1..Len(search_dirs) : search_dirs[d] = dir

\* C20: search_files_random(count) returns the first min(count, n) of the
\* n <= 20 entries it collected; each collected entry is a direct child, with
\* a name not starting with '.', of ~/Documents, ~/Downloads or ~/Desktop,
\* read in that order; nothing is read or taken up once 20 are collected.
C20_RandomFirstOfCapped ==
    InSearchFilesRandom =>
        /\ Stepped =>
               /\ Step.held <= 20
               /\ Step.op \in {"read_dir", "entry"} => Step.held < 20
               /\ IF Step.op = "read_dir"
                  THEN /\ Step.path \in Range(search_dirs)
                       /\ \A k \in 1..(file_call.at - 1) :
                              Done[k].op = "read_dir" =>
                                  DirOrder(Done[k].path) < DirOrder(Step.path)
                  ELSE parent_of(Step.path) \in Range(search_dirs)
               /\ Step.op = "push" => ~starts_with(entry_at(Step.path).name, ".")
        /\ Len(file_call.call.raw) <= 20
        /\ Returned = SubSeq(file_call.call.raw, 1,
                             Min(file_call.count, Len(file_call.call.raw)))
        /\ \A i \in 1..Len(file_call.call.raw) :
               \E e \in PushedEntries :
                   file_call.call.raw[i] =
                       SearchResult_new(e.name, e.canonical[1], "Files")

\* Asked for 21, search_files_random returned the 20 entries it collected in
\* ~/Documents and ~/Downloads and never read ~/Desktop.
C20_Witness ==
    /\ InSearchFilesRandom
    /\ file_call.done
    /\ file_call.count = 21
    /\ Len(Returned) = 20
    /\ \E k \in 1..Len(file_call.call.trace) :
           file_call.call.trace[k].op = "entry"
               /\ file_call.call.trace[k].path = "~/Documents/.a"
    /\ \A k \in 1..Len(file_call.call.trace) :
           file_call.call.trace[k].path \notin {"~/Desktop", "~/Downloads/f18"}

C22_EmptyQueryIdentity ==
    (rank_call.fn = "fuzzy_search" /\ is_empty(rank_call.query)) =>
        rank_call.returned = rank_call.candidates

\* fuzzy_search with the empty query returned two candidates in an order that
\* is not the sorted one.
C22_Witness ==
    /\ rank_call.fn = "fuzzy_search"
    /\ is_empty(rank_call.query)
    /\ Len(rank_call.candidates) = 2
    /\ ~cmp_le(rank_call.candidates[1].name, rank_call.candidates[2].name)
    /\ rank_call.returned = rank_call.candidates

\* C23 (as claimed): in every provider, a call with the query in another case
\* returns the same set of candidates.
C23_NoCaseDistinction ==
    rank_call.before # <<>> =>
        Range(rank_call.returned) = Range(rank_call.before[1].returned)

\* The locks thread t holds, and the step it did last.
Held(t) == Range(handling[t].held)
Stepping(t) == handling[t].pc > 0
LastStep(t) == handling[t].steps[handling[t].pc]

\* An order of the mutexes: DELEGATE_DATA first, then the fields.
LockRank(m) ==
    CASE m = DELEGATE_DATA -> 0
      [] m = "search_mode" -> 1
      [] m = "apps" -> 2
      [] m = "filtered" -> 3
      [] m = "selected_index" -> 4

C25_FilteredMatchesQuery ==
    filtered \in query_results(search_mode, text)

\* C26: in every reachable state every entry of filtered has the current
\* search_mode as its result_type, so a launched entry went to sh -c exactly
\* when the session was in Run mode and to the file/application opener
\* exactly when it was in Apps or Files mode.
C26_ResultTypeIsMode ==
    /\ \A i \in 1..Len(filtered) : filtered[i].result_type = search_mode
    /\ \A k \in 1..Len(launches) :
           /\ launches[k].entry.result_type = search_mode
           /\ launches[k].via = "sh -c" <=> search_mode = "Run"
           /\ launches[k].via = "NSWorkspace openFile:" <=>
                  search_mode \in {"Apps", "Files"}

\* After a click on the Run button replaced application results by commands,
\* Enter handed the selected command to sh -c.
C26_Witness ==
    /\ search_mode = "Run"
    /\ last_event.name = "insertNewline:"
    /\ Len(launches) = 1
    /\ launches[1].via = "sh -c"
    /\ launches[1].entry.path = "pmset displaysleepnow"

\* C27: keyboard movement is clamped and never wraps: moveDown: adds exactly
\* 1 to selected_index when it is below len(filtered) - 1 and otherwise
\* leaves it, moveUp: subtracts exactly 1 when it is above 0 and otherwise
\* leaves it.
C27_MoveByOneClamped ==
    /\ last_event.name = "moveDown:" =>
           selected_index = IF last_event.from < Len(filtered) - 1
                            THEN last_event.from + 1
                            ELSE last_event.from
    /\ last_event.name = "moveUp:" =>
           selected_index = IF last_event.from > 0
                            THEN last_event.from - 1
                            ELSE last_event.from

\* moveUp: arrived with the third of five entries selected and left the
\* second selected.
C27_Witness ==
    /\ last_event.name = "moveUp:"
    /\ Len(filtered) = 5
    /\ last_event.from = 2
    /\ selected_index = 1

\* A step that is a call of index_applications: it met the cache file as it
\* was and left the cache file as it is.
IndexCallStep ==
    /\ index_call'.outcome \in {"cache", "scan"}
    /\ index_call'.seen = cache_file
    /\ index_call'.left = cache_file'
    /\ UNCHANGED << cache_dir, cache_io, readable_dirs >>

\* The last call returned a list that the cache file holds: a scan whose
\* write succeeded, or a call that returned the cache.
LastCallCached ==
    /\ index_call.outcome \in {"cache", "scan"}
    /\ index_call.left.exists
    /\ index_call.left.json_ok
    /\ index_call.left.list = index_call.returned

\* C28 (as claimed): after a scan whose cache write succeeded, every later
\* call made while the cache file is less than 3600 seconds old returns the
\* list that scan returned, without scanning.
C28_LaterCallsReturnScan ==
    [][ (IndexCallStep /\ LastCallCached
            /\ cache_file.exists /\ cache_file.age \in 0..3599) =>
            /\ index_call'.outcome = "cache"
            /\ index_call'.returned = index_call.returned
      ]_vars

\* C28 (amended): such a call returns the list the scan returned, without
\* scanning and without touching the cache file, whatever the application
\* directories hold by then, provided the cache file still holds what the
\* scan wrote and can be read; otherwise it scans again.
C28_LaterCallsReturnScanIfLoaded ==
    [][ (IndexCallStep /\ LastCallCached
            /\ cache_file.exists /\ cache_file.age \in 0..3599) =>
            IF cache_io.read_ok /\ cache_file.json_ok
                   /\ cache_file.list = index_call.returned
            THEN /\ index_call'.outcome = "cache"
                 /\ index_call'.returned = index_call.returned
                 /\ cache_file' = cache_file
            ELSE /\ index_call'.outcome = "scan"
                 /\ index_call'.returned = scan_applications(readable_dirs)
      ]_vars

\* A call returned the list a scan of this behaviour had written 3599 seconds
\* earlier (not the list the first run met) although the directories had
\* changed and a scan would have found another list.
C28_Witness ==
    /\ index_call.outcome = "cache"
    /\ SeenAge(3599)
    /\ index_call.returned # scan_applications(index_call.dirs)
    /\ index_call.returned # AppCatalog
    /\ Len(index_call.returned) > 0

\* C29: a commit with no entry at its target index launches nothing and
\* leaves the session open, with filtered, selected_index and search_mode as
\* they were: Enter when filtered has no entry at selected_index changes none
\* of launches, terminated, filtered, selected_index, search_mode; a click
\* launches and terminates only with an entry of filtered at a row on screen.
C29_NoEntryNoCommit ==
    [][ /\ last_event'.name = "insertNewline:" =>
            /\ UNCHANGED << filtered, selected_index, search_mode >>
            /\ get(filtered, selected_index) = <<>> =>
                   UNCHANGED << launches, terminated >>
        /\ last_event'.name = "mouseDown:" =>
            /\ UNCHANGED << filtered, selected_index, search_mode >>
            /\ (~ \E row_index \in Rows : get(filtered, row_index) # <<>>) =>
                   UNCHANGED << launches, terminated >>
            /\ (terminated' \/ launches' # launches) =>
                   \E row_index \in Rows :
                       /\ get(filtered, row_index) # <<>>
                       /\ launches'[Len(launches')].entry = get(filtered, row_index)[1]
      ]_vars

\* Enter was pressed on an empty result list: nothing launched, session open.
C29_Witness ==
    /\ last_event.name = "insertNewline:"
    /\ get(filtered, selected_index) = <<>>
    /\ launches = <<>>
    /\ ~terminated

\* The directories of the file system and the symbolic links in it.
Directories == {Home} \cup { e.path : e \in { d \in AllEntries : d.is_dir } }
Links == { e.path : e \in { l \in AllEntries : l.canonical # << l.path >> } }

\* The steps of a walk that reads every directory once and takes up and
\* pushes every entry once.
WalkBound == Cardinality(Directories) + 2 * Cardinality(AllEntries)

====
